---- MODULE Spec2Model ----
(***************************************************************************)
(* A model of the trading engine of crypot-python:                         *)
(*   - AdvancedTradingStrategy (advanced_strategy.py): the position state, *)
(*     the resync from the venue, the decision cycle, pyramiding, dynamic  *)
(*     sizing and the operator commands;                                   *)
(*   - OkxHandler (okx_handler.py): the two retry wrappers.                *)
(*                                                                         *)
(* Units.  Sizes are integers counted in 0.001 contracts (the rounding     *)
(* step of round(x, 3)), prices are integers, and a quotient the code      *)
(* keeps as a float is kept as an exact fraction [n, d].                   *)
(*                                                                         *)
(* The strategy receives its venue adapter by constructor injection        *)
(* (self.okx).  Every call on it is modelled by the outcomes the call can  *)
(* have for the strategy: a result, no result (None), or an exception.     *)
(***************************************************************************)
EXTENDS Integers, Sequences, FiniteSets, TLC

VARIABLES
    self,      \* the AdvancedTradingStrategy object's fields
    venue,     \* the position the venue holds for the instrument
    now,       \* the wall clock, in units of HoursPerTick
    log,       \* what the last operation did: calls made, orders, result
    loop,      \* the coroutine AdvancedTradingStrategy.run_strategy
    rt,        \* one call of a retry wrapper of OkxHandler
    dp         \* one evaluation of calculate_dynamic_position on two windows

vars == <<self, venue, now, log, loop, rt, dp>>

-----------------------------------------------------------------------------
(* Bounds of the model *)

MaxObs == 3         \* price observations the model lets a strategy store
MaxTime == 1        \* last clock tick
MaxAttempts == 6    \* attempts of one wrapper call the model follows
MaxWin == 5         \* longest price window handed to the sizing function
MaxVenuePos == 20   \* largest position, in 0.001 contracts, the venue fills up to
HoursPerTick == 8   \* hours of wall clock one tick of now stands for
MaxSeen == 22       \* price observations handed to _update_price_history alone
MaxSwitches == 1    \* times the observed price changes within those observations

(* Program constants *)

POSITION_SIZE == 10       \* config.POSITION_SIZE = 0.01, in 0.001 contracts
MIN_INCREMENT == 1        \* 0.001, the floor of a pyramid add
volatility_window == 20
max_retries == 5
MAX_WAIT == 30
TIME_DECAY_HOURS == 6
DEFAULT_STOP_LOSS == 5
DEFAULT_TAKE_PROFIT == 10
DEFAULT_MAX_PYRAMIDS == 3

None == "none"
NoAttr == -1              \* an attribute the object does not have yet
NaN == -2                 \* a not-a-number indicator value

-----------------------------------------------------------------------------
(* Exact fractions, for the floats the code divides *)

RECURSIVE GCD(_, _)
GCD(a, b) == IF b = 0 THEN a ELSE GCD(b, a % b)

Frac(n, d) == IF n = 0 THEN [n |-> 0, d |-> 1]
              ELSE LET g == GCD(n, d) IN [n |-> n \div g, d |-> d \div g]

OfInt(p) == [n |-> p, d |-> 1]

Zero == OfInt(0)

Positive(r) == r.n > 0

FracEq(a, b) == a.n * b.d = b.n * a.d

FracLeq(a, b) == a.n * b.d <= b.n * a.d

Abs(x) == IF x < 0 THEN -x ELSE x

Min2(a, b) == IF a < b THEN a ELSE b

Max2(a, b) == IF a > b THEN a ELSE b

\* round(x, 3) of x = n/d counted in 0.001: the nearest integer.
Round3(n, d) == (2 * n + d) \div (2 * d)

-----------------------------------------------------------------------------
(* The venue, as the adapter reports it *)

Flat == [pos |-> 0, avgPx |-> Zero, adds |-> 0]

\* Positions somebody else (the operator, another process) may leave at the venue.
ManualPositions ==
    { Flat,
      [pos |-> -5, avgPx |-> OfInt(120), adds |-> 0],
      [pos |-> 5, avgPx |-> OfInt(120), adds |-> 0] }

\* Last prices the ticker reports; 0 stands for a read the cycle finds falsy.
Prices == {106}

PriceOutcomes == Prices \cup {0}

\* get_current_price() = None, returned when the markets are not loaded or the
\* ticker request raised.
PriceNone == -1

\* The cycle goes on whatever the price read was.
PriceMissingNever(current_price) == FALSE

\* "if not current_price": None and a price of 0 are both falsy.
PriceMissing(current_price) == current_price = PriceNone \/ current_price = 0

\* get_positions(): the venue's report, nothing (an error was swallowed, or the
\* list was empty), or a record the loop of _update_position_info cannot read.
PositionsOutcomes == {"ok", "fail", "malformed"}

\* An order call on the adapter: acknowledged ({'data': ...}), not acknowledged
\* (None, or a result without 'data'), or an exception out of the call.
OrderOutcomes == {"ack", "nack", "raise"}

\* What an acknowledged market order does to the venue's position: it adds to a
\* position of its side (or opens one) at the venue's average price, up to the
\* largest position the model follows; against a position of the other side it
\* shows no effect on the report.  adds counts the orders filled on top of the
\* position since it was opened.
VenueAfterOpen(v, side, size, price) ==
    LET signed == IF side = "short" THEN -size ELSE size
        total == v.pos + signed
    IN IF Abs(total) > MaxVenuePos \/ (v.pos # 0 /\ (v.pos > 0) # (signed > 0)) THEN v
       ELSE IF v.pos = 0 THEN [pos |-> total, avgPx |-> OfInt(price), adds |-> 0]
       ELSE [pos |-> total, avgPx |-> v.avgPx, adds |-> v.adds + 1]

VenueAfterClose(v, side) ==
    IF (side = "short" /\ v.pos < 0) \/ (side = "long" /\ v.pos > 0) THEN Flat ELSE v

-----------------------------------------------------------------------------
(* AdvancedTradingStrategy: construction and resync *)

\* __init__ up to the call of _update_position_info.
Constructed ==
    [ position |-> None, entry_price |-> Zero, position_size |-> NoAttr,
      entry_time |-> NoAttr, last_position |-> "unset",
      current_pyramids |-> 0, last_pyramid_price |-> Zero,
      volatility_history |-> << >>,
      stop_loss_percentage |-> DEFAULT_STOP_LOSS,
      take_profit_percentage |-> DEFAULT_TAKE_PROFIT,
      pyramid_enabled |-> FALSE, max_pyramids |-> DEFAULT_MAX_PYRAMIDS,
      current_strategy |-> "triple_signal", running |-> FALSE ]

SideOf(pos) == IF pos > 0 THEN "long" ELSE IF pos < 0 THEN "short" ELSE None

\* "if not hasattr(self, 'last_position') or self.last_position != self.position"
IsNewPosition(last_position, position) ==
    last_position = "unset" \/ last_position # position

\* _update_position_info on object s, with the outcome of get_positions,
\* the venue's position v, at time t.
UpdatePositionInfo(s, outcome, v, t) ==
    LET cleared == [s EXCEPT !.position = None, !.entry_price = Zero] IN
    IF outcome = "malformed" THEN cleared
    ELSE IF outcome = "fail" \/ v.pos = 0
    THEN [cleared EXCEPT !.last_position = None]
    ELSE LET side == SideOf(v.pos)
             held == [cleared EXCEPT !.position = side,
                                     !.entry_price = v.avgPx,
                                     !.position_size = Abs(v.pos)]
             fresh == IF IsNewPosition(s.last_position, side)
                      THEN [held EXCEPT !.current_pyramids = 0,
                                        !.last_pyramid_price = v.avgPx,
                                        !.entry_time = t]
                      ELSE held
         IN [fresh EXCEPT !.last_position = side]

\* The window trimmed as soon as it is full.
UpdatePriceHistoryEager(s, current_price) ==
    LET appended == Append(s.volatility_history, current_price) IN
    [s EXCEPT !.volatility_history =
        IF Len(appended) >= volatility_window THEN Tail(appended) ELSE appended]

\* _update_price_history
UpdatePriceHistory(s, current_price) ==
    LET appended == Append(s.volatility_history, current_price) IN
    [s EXCEPT !.volatility_history =
        IF Len(appended) > volatility_window THEN Tail(appended) ELSE appended]

-----------------------------------------------------------------------------
(* Risk manager: volatility and dynamic sizing *)

FracAdd(a, b) == Frac(a.n * b.d + b.n * a.d, a.d * b.d)

\* abs((curr - prev) / prev * 100)
PctChange(prev, curr) == Frac(Abs(curr - prev) * 100, prev)

RECURSIVE SumChanges(_, _)
SumChanges(h, i) ==
    IF i > Len(h) THEN Zero
    ELSE FracAdd(PctChange(h[i - 1], h[i]), SumChanges(h, i + 1))

\* _calculate_volatility: the mean absolute percentage change, 0 below 5 samples.
CalculateVolatility(h) ==
    IF Len(h) < 5 THEN Zero
    ELSE LET total == SumChanges(h, 2) IN Frac(total.n, total.d * (Len(h) - 1))

\* min(100, max(0, volatility * 10))
VolatilityIndex(h) ==
    LET v == CalculateVolatility(h)
        scaled == Frac(v.n * 10, v.d)
    IN IF FracLeq(OfInt(100), scaled) THEN OfInt(100)
       ELSE IF FracLeq(scaled, Zero) THEN Zero ELSE scaled

\* np.exp in fixed point: EXP_SCALE * e^(-x / EXP_SCALE) for 0 <= x <= 3 * EXP_SCALE,
\* by the series of e^(-x/4) and two squarings.
EXP_SCALE == 40000

RECURSIVE ExpSeries(_, _, _)
ExpSeries(y, term, k) ==
    IF term = 0 \/ k > 12 THEN 0
    ELSE LET next == (term * y) \div (EXP_SCALE * k)
         IN term - next + ExpSeries(y, (next * y) \div (EXP_SCALE * (k + 1)), k + 2)

ExpNeg(x) ==
    LET e1 == ExpSeries(x \div 4, EXP_SCALE, 1)
        e2 == (e1 * e1) \div EXP_SCALE
    IN (e2 * e2) \div EXP_SCALE

\* The exponent 0.03 * (100 - volatility_index), times EXP_SCALE.
SizingExponent(vi) == (3 * (100 * vi.d - vi.n) * (EXP_SCALE \div 100)) \div vi.d

\* base_size * (1 - np.exp(-0.03 * (100 - volatility_index))), times EXP_SCALE,
\* with base_size = POSITION_SIZE * 0.5.
RawDynamicSize(vi) ==
    ((POSITION_SIZE * (EXP_SCALE - ExpNeg(SizingExponent(vi)))) \div 2)

\* The size left as the formula gives it.
Unclamped(raw) == raw

\* max(POSITION_SIZE * 0.1, min(POSITION_SIZE, position_size)), times EXP_SCALE
ClampSize(raw) ==
    Max2((POSITION_SIZE * EXP_SCALE) \div 10, Min2(POSITION_SIZE * EXP_SCALE, raw))

\* calculate_dynamic_position on the window h: the size in 0.001 contracts.
CalculateDynamicPosition(h) ==
    Round3(ClampSize(RawDynamicSize(VolatilityIndex(h))), EXP_SCALE)

-----------------------------------------------------------------------------
(* Risk manager: stop-loss and take-profit *)

\* profit_percentage = ProfitNum * 100 / entry_price.n, for the side held.
ProfitNum(s, current_price) ==
    IF s.position = "long"
    THEN current_price * s.entry_price.d - s.entry_price.n
    ELSE s.entry_price.n - current_price * s.entry_price.d

\* profit_percentage <= pct
ProfitAtMost(s, current_price, pct) ==
    ProfitNum(s, current_price) * 100 <= pct * s.entry_price.n

\* profit_percentage >= pct
ProfitAtLeast(s, current_price, pct) ==
    ProfitNum(s, current_price) * 100 >= pct * s.entry_price.n

\* get_kline_data(bar='15m', limit=20) followed by calculate_indicators, as
\* check_stop_loss_conditions reads it: the call raises, returns None, or gives
\* a frame of len rows with the highest high and lowest low of its last three
\* rows and the last ATR and ADX (NaN while the indicator has no value).
StopKlines ==
    { [fetch |-> "raise", len |-> 0, high3 |-> 0, low3 |-> 0, atr |-> NaN, adx |-> NaN],
      [fetch |-> "none", len |-> 0, high3 |-> 0, low3 |-> 0, atr |-> NaN, adx |-> NaN],
      [fetch |-> "ok", len |-> 20, high3 |-> 110, low3 |-> 90, atr |-> 2, adx |-> NaN],
      [fetch |-> "ok", len |-> 20, high3 |-> 100, low3 |-> 100, atr |-> 1, adx |-> 40] }

\* "if profit_percentage <= -self.stop_loss_percentage"; no comparison with
\* nan is true.
FixedStopHit(s, current_price) ==
    /\ s.stop_loss_percentage # NaN
    /\ ProfitAtMost(s, current_price, -s.stop_loss_percentage)

\* Rule 2: max(recent_highs + 2 * atr, entry_price * 0.98) for a short,
\* min(recent lows - 2 * atr, entry_price * 1.02) for a long.
TrailingStopHit(s, current_price, k) ==
    /\ k.len >= 3
    /\ k.atr # NaN
    /\ IF s.position = "short"
       THEN /\ current_price >= k.high3 + 2 * k.atr
            /\ current_price * 100 * s.entry_price.d >= 98 * s.entry_price.n
       ELSE /\ current_price <= k.low3 - 2 * k.atr
            /\ current_price * 100 * s.entry_price.d <= 102 * s.entry_price.n

\* Rule 3: adverse move above 3 * atr with adx > 30.
BreakoutStopHit(s, current_price, k) ==
    /\ k.atr # NaN /\ k.adx # NaN
    /\ -ProfitNum(s, current_price) > 3 * k.atr * s.entry_price.d
    /\ k.adx > 30

\* Rule 4: held for more than 6 hours with profit below 1%.
TimeDecayStopHit(s, current_price, t) ==
    /\ s.entry_time # NoAttr
    /\ (t - s.entry_time) * HoursPerTick > TIME_DECAY_HOURS
    /\ ~ProfitAtLeast(s, current_price, 1)

\* check_stop_loss_conditions: [raised, fired, reason]
CheckStopLossConditions(s, current_price, k, t) ==
    IF s.position = None \/ ~Positive(s.entry_price)
    THEN [raised |-> FALSE, fired |-> FALSE, reason |-> "no_position"]
    ELSE IF k.fetch = "raise"
    THEN [raised |-> TRUE, fired |-> FALSE, reason |-> "exception"]
    ELSE IF k.fetch = "none"
    THEN [raised |-> FALSE, fired |-> FALSE, reason |-> "no_kline"]
    ELSE IF FixedStopHit(s, current_price)
    THEN [raised |-> FALSE, fired |-> TRUE, reason |-> "fixed"]
    ELSE IF TrailingStopHit(s, current_price, k)
    THEN [raised |-> FALSE, fired |-> TRUE, reason |-> "trailing"]
    ELSE IF BreakoutStopHit(s, current_price, k)
    THEN [raised |-> FALSE, fired |-> TRUE, reason |-> "breakout"]
    ELSE IF s.entry_time = NoAttr
    THEN [raised |-> TRUE, fired |-> FALSE, reason |-> "exception"]
    ELSE IF TimeDecayStopHit(s, current_price, t)
    THEN [raised |-> FALSE, fired |-> TRUE, reason |-> "time_decay"]
    ELSE [raised |-> FALSE, fired |-> FALSE, reason |-> None]

\* check_take_profit_conditions: [fired, reason]
CheckTakeProfitConditions(s, current_price) ==
    IF s.position = None \/ ~Positive(s.entry_price)
    THEN [fired |-> FALSE, reason |-> "no_position"]
    ELSE IF /\ s.take_profit_percentage # NaN
            /\ ProfitAtLeast(s, current_price, s.take_profit_percentage)
    THEN [fired |-> TRUE, reason |-> "take_profit"]
    ELSE [fired |-> FALSE, reason |-> None]

-----------------------------------------------------------------------------
(* Pyramid controller *)

\* The frame check_pyramid_conditions reads: the last RSI, the last ten closes
\* (oldest first, the latest close last) and the last ATR.
PyramidKlines ==
    { [fetch |-> "raise", rsi |-> NaN, closes |-> <<100>>, atr |-> NaN],
      [fetch |-> "none", rsi |-> NaN, closes |-> <<100>>, atr |-> NaN],
      [fetch |-> "ok", rsi |-> 50, closes |-> <<101, 100, 99>>, atr |-> 1],
      [fetch |-> "ok", rsi |-> 50, closes |-> <<99, 100, 101>>, atr |-> 1] }

SeqMin(q) == CHOOSE x \in {q[i] : i \in 1..Len(q)} : \A i \in 1..Len(q) : x <= q[i]

SeqMax(q) == CHOOSE x \in {q[i] : i \in 1..Len(q)} : \A i \in 1..Len(q) : x >= q[i]

\* "if self.current_pyramids >= self.max_pyramids" (check_pyramid_conditions)
PyramidLimitReached(current_pyramids, max_pyramids_) ==
    current_pyramids >= max_pyramids_

\* rsi > 40 for a short, rsi < 60 for a long
RsiCondition(position, k) ==
    k.rsi # NaN /\ (IF position = "short" THEN k.rsi > 40 ELSE k.rsi < 60)

\* df['close'].iloc[-1] against the min (max) of df['close'].iloc[-10:]
NewExtreme(position, k) ==
    LET last == k.closes[Len(k.closes)] IN
    IF position = "short" THEN last < SeqMin(k.closes) ELSE last > SeqMax(k.closes)

\* abs(current_price - last_pyramid_price) >= 2 * atr, infinite without a last price
DistanceCondition(s, current_price, k) ==
    /\ k.atr # NaN
    /\ \/ ~Positive(s.last_pyramid_price)
       \/ Abs(current_price * s.last_pyramid_price.d - s.last_pyramid_price.n)
            >= 2 * k.atr * s.last_pyramid_price.d

\* check_pyramid_conditions: [raised, ok, reason]
CheckPyramidConditions(s, current_price, k) ==
    IF ~s.pyramid_enabled \/ s.position = None
    THEN [raised |-> FALSE, ok |-> FALSE, reason |-> "disabled"]
    ELSE IF PyramidLimitReached(s.current_pyramids, s.max_pyramids)
    THEN [raised |-> FALSE, ok |-> FALSE, reason |-> "max_reached"]
    ELSE IF k.fetch = "raise"
    THEN [raised |-> TRUE, ok |-> FALSE, reason |-> "exception"]
    ELSE IF k.fetch = "none"
    THEN [raised |-> FALSE, ok |-> FALSE, reason |-> "no_kline"]
    ELSE IF RsiCondition(s.position, k) /\ NewExtreme(s.position, k)
            /\ DistanceCondition(s, current_price, k)
    THEN [raised |-> FALSE, ok |-> TRUE, reason |-> "conditions_met"]
    ELSE [raised |-> FALSE, ok |-> FALSE, reason |-> "conditions_not_met"]

RECURSIVE Pow2(_)
Pow2(k) == IF k = 0 THEN 1 ELSE 2 * Pow2(k - 1)

\* Every add of the size of the first one.
PyramidSizeFlat(current_pyramids) == Round3(POSITION_SIZE, 2)

\* round(max(0.001, POSITION_SIZE * 0.5 ** (current_pyramids + 1)), 3)
PyramidSize(current_pyramids) ==
    LET d == Pow2(current_pyramids + 1) IN
    IF POSITION_SIZE < MIN_INCREMENT * d THEN MIN_INCREMENT ELSE Round3(POSITION_SIZE, d)

\* The guard of execute_pyramid comparing with > in place of >=.
PyramidBlockedAboveLimit(s) ==
    ~s.pyramid_enabled \/ s.current_pyramids > s.max_pyramids

\* "if not self.pyramid_enabled or self.current_pyramids >= self.max_pyramids"
PyramidBlocked(s) ==
    ~s.pyramid_enabled \/ s.current_pyramids >= s.max_pyramids

\* The mean of the two prices, whatever the sizes.
UnweightedEntry(entry_price, position_size, current_price, size) ==
    Frac(entry_price.n + current_price * entry_price.d, 2 * entry_price.d)

\* (entry_price * position_size + current_price * size) / (position_size + size)
WeightedEntry(entry_price, position_size, current_price, size) ==
    Frac(entry_price.n * position_size + current_price * size * entry_price.d,
         entry_price.d * (position_size + size))

\* The fields a confirmed pyramid fill writes.
PyramidFill(s, current_price, size) ==
    [s EXCEPT !.current_pyramids = s.current_pyramids + 1,
              !.last_pyramid_price = OfInt(current_price),
              !.position_size = s.position_size + size,
              !.entry_price = WeightedEntry(s.entry_price, s.position_size,
                                            current_price, size)]

Order(kind, side, size, s) ==
    [kind |-> kind, side |-> side, size |-> size,
     pyramids |-> s.current_pyramids, limit |-> s.max_pyramids]

\* execute_pyramid booking the add before it reads the venue's answer.
ExecutePyramidOptimistic(s, current_price, outcome) ==
    IF PyramidBlocked(s)
    THEN [s |-> s, orders |-> << >>, ret |-> "pyramid_blocked"]
    ELSE LET size == PyramidSize(s.current_pyramids)
             side == IF s.position = "short" THEN "short" ELSE "long"
             sent == << Order("pyramid", side, size, s) >>
         IN [s |-> PyramidFill(s, current_price, size), orders |-> sent,
             ret |-> IF outcome = "ack" THEN "pyramid_done"
                     ELSE IF outcome = "nack" THEN "pyramid_failed"
                     ELSE "exception"]

\* execute_pyramid with the adapter answering outcome: [s, orders, ret]
ExecutePyramid(s, current_price, outcome) ==
    IF PyramidBlocked(s)
    THEN [s |-> s, orders |-> << >>, ret |-> "pyramid_blocked"]
    ELSE LET size == PyramidSize(s.current_pyramids)
             side == IF s.position = "short" THEN "short" ELSE "long"
             sent == << Order("pyramid", side, size, s) >>
         IN IF outcome = "ack"
            THEN [s |-> PyramidFill(s, current_price, size), orders |-> sent,
                  ret |-> "pyramid_done"]
            ELSE IF outcome = "nack"
            THEN [s |-> s, orders |-> sent, ret |-> "pyramid_failed"]
            ELSE [s |-> s, orders |-> sent, ret |-> "exception"]

-----------------------------------------------------------------------------
(* Signal detector: the three evaluators, each on its own candle fetch *)

\* get_kline_data(timeframe=..., limit=50) and calculate_indicators as an
\* evaluator reads them: no frame, fewer than 30 rows, an exception, or the
\* three conditions of the last row.
NoKline == [fetch |-> "none", a |-> FALSE, b |-> FALSE, c |-> FALSE]

Kline(a, b, c) == [fetch |-> "ok", a |-> a, b |-> b, c |-> c]

\* The three frames (1D, 4H, 1H) of one cycle.
Markets ==
    { << Kline(TRUE, TRUE, TRUE), Kline(TRUE, TRUE, TRUE), Kline(TRUE, TRUE, TRUE) >>,
      << NoKline, Kline(TRUE, TRUE, TRUE), Kline(TRUE, TRUE, TRUE) >>,
      << Kline(TRUE, TRUE, TRUE), [Kline(TRUE, TRUE, TRUE) EXCEPT !.fetch = "few"],
         Kline(TRUE, TRUE, TRUE) >>,
      << Kline(TRUE, TRUE, TRUE), Kline(TRUE, TRUE, TRUE),
         [Kline(TRUE, TRUE, TRUE) EXCEPT !.fetch = "raise"] >>,
      << Kline(TRUE, TRUE, TRUE), Kline(TRUE, FALSE, TRUE), Kline(TRUE, TRUE, FALSE) >> }

Tri(b) == IF b THEN "True" ELSE "False"

\* An evaluator that goes on with a frame of fewer than 30 rows.
UndeterminedUnlessFew(k) == k.fetch \in {"none", "raise"}

\* "df is None or len(df) < 30", or an exception caught by the evaluator
Undetermined(k) == k.fetch \in {"none", "few", "raise"}

\* down_trend and strong_trend and price_below_st
DetectTrendDirection(k) == IF Undetermined(k) THEN "None" ELSE Tri(k.a /\ k.b /\ k.c)

\* tight_bbands and low_volatility
DetectConsolidation(k) == IF Undetermined(k) THEN "None" ELSE Tri(k.a /\ k.b)

\* price_at_fib and not_oversold and (divergence or not 'volume' in columns);
\* get_kline_data always builds the volume column.
DetectEntrySignal(k) == IF Undetermined(k) THEN "None" ELSE Tri(k.a /\ k.b /\ k.c)

\* An evaluator without an answer counted as agreeing.
AllSignalsUnlessFalse(sig) == sig[1] # "False" /\ sig[2] # "False" /\ sig[3] # "False"

\* "if trend_down and consolidation and entry_signal"
AllSignals(sig) == sig[1] = "True" /\ sig[2] = "True" /\ sig[3] = "True"

-----------------------------------------------------------------------------
(* The decision cycle: the body of run_triple_signal_strategy that submits orders *)

NoLog(op) ==
    [op |-> op, ret |-> "", reason |-> None, orders |-> << >>, held |-> FALSE,
     venue_held |-> FALSE, price |-> 0, sig |-> << >>, size |-> 0, pyr |-> "n/a",
     pyramids |-> 0, limit |-> 0, outcome |-> None, before |-> << >>,
     calls |-> << >>, kline |-> << >>, t |-> 0, seen |-> << >>]

\* The in-memory position state.
PositionState(s) ==
    << s.position, s.entry_price, s.position_size, s.current_pyramids,
       s.last_pyramid_price, s.entry_time >>

Done(s, v, l) ==
    /\ self' = s
    /\ venue' = v
    /\ log' = l
    /\ UNCHANGED <<now, loop, rt, dp>>

\* "if self.position and self.entry_price > 0"
HasPosition(s) == s.position # None /\ Positive(s.entry_price)

\* A close that is submitted again when the venue declines it.
CloseBranchRetried(s, reason, l) ==
    \E o \in OrderOutcomes, p2 \in PositionsOutcomes :
        LET sent == << Order("close", s.position, 0, s) >>
            v2 == VenueAfterClose(venue, s.position)
            l2 == [l EXCEPT !.orders = sent, !.reason = reason, !.outcome = o,
                            !.before = PositionState(s)]
        IN IF o = "ack"
           THEN Done(UpdatePositionInfo(s, p2, v2, now), v2, [l2 EXCEPT !.ret = "closed"])
           ELSE Done(s, venue, [l2 EXCEPT !.orders = sent \o sent,
                                          !.ret = "close_failed"])

\* Lines 403-413 and 418-428: close, and resync once the close is acknowledged.
CloseBranch(s, reason, l) ==
    \E o \in OrderOutcomes, p2 \in PositionsOutcomes :
        LET sent == << Order("close", s.position, 0, s) >>
            v2 == VenueAfterClose(venue, s.position)
            l2 == [l EXCEPT !.orders = sent, !.reason = reason, !.outcome = o,
                            !.before = PositionState(s)]
        IN IF o = "ack"
           THEN Done(UpdatePositionInfo(s, p2, v2, now), v2, [l2 EXCEPT !.ret = "closed"])
           ELSE IF o = "nack"
           THEN Done(s, venue, [l2 EXCEPT !.ret = "close_failed"])
           ELSE Done(s, venue, [l2 EXCEPT !.ret = "error"])

\* Lines 430-437
PyramidBranch(s, current_price, l) ==
    \E k \in PyramidKlines, o \in OrderOutcomes :
        LET c == CheckPyramidConditions(s, current_price, k)
            l2 == [l EXCEPT !.pyr = IF c.raised THEN "raise" ELSE Tri(c.ok),
                            !.pyramids = s.current_pyramids,
                            !.limit = s.max_pyramids]
            r == ExecutePyramid(s, current_price, o)
        IN IF c.raised THEN Done(s, venue, [l2 EXCEPT !.ret = "error"])
           ELSE IF c.ok
           THEN Done(r.s,
                     IF o = "ack" /\ r.orders # << >>
                     THEN VenueAfterOpen(venue, r.orders[1].side, r.orders[1].size,
                                         current_price)
                     ELSE venue,
                     [l2 EXCEPT !.orders = r.orders,
                                !.outcome = IF r.orders = << >> THEN None ELSE o,
                                !.before = PositionState(s),
                                !.ret = IF r.ret = "exception" THEN "error" ELSE r.ret])
           ELSE Done(s, venue, [l2 EXCEPT !.ret = "observing"])

\* The pyramid controller consulted whatever the switch says.
PyramidAlwaysEvaluated(s) == TRUE

\* "if self.pyramid_enabled:" (line 430)
PyramidEvaluated(s) == s.pyramid_enabled

\* The take-profit condition asked before the stop-loss rules.
HoldBranchProfitFirst(s, current_price, l0) ==
    \E k \in StopKlines :
        LET sl == CheckStopLossConditions(s, current_price, k, now)
            tp == CheckTakeProfitConditions(s, current_price)
            l == [l0 EXCEPT !.kline = k, !.t = now, !.before = PositionState(s)]
        IN IF tp.fired THEN CloseBranch(s, tp.reason, l)
           ELSE IF sl.raised THEN Done(s, venue, [l EXCEPT !.ret = "error"])
           ELSE IF sl.fired THEN CloseBranch(s, sl.reason, l)
           ELSE IF PyramidEvaluated(s) THEN PyramidBranch(s, current_price, l)
           ELSE Done(s, venue, [l EXCEPT !.ret = "observing"])

\* Lines 398-437
HoldBranch(s, current_price, l0) ==
    \E k \in StopKlines :
        LET sl == CheckStopLossConditions(s, current_price, k, now)
            tp == CheckTakeProfitConditions(s, current_price)
            l == [l0 EXCEPT !.kline = k, !.t = now, !.before = PositionState(s)]
        IN IF sl.raised THEN Done(s, venue, [l EXCEPT !.ret = "error"])
           ELSE IF sl.fired THEN CloseBranch(s, sl.reason, l)
           ELSE IF tp.fired THEN CloseBranch(s, tp.reason, l)
           ELSE IF PyramidEvaluated(s) THEN PyramidBranch(s, current_price, l)
           ELSE Done(s, venue, [l EXCEPT !.ret = "observing"])

\* The fields lines 458-462 write after an acknowledged open.
OpenFill(s, p2, v2, t, position_size, current_price) ==
    [UpdatePositionInfo(s, p2, v2, t) EXCEPT
        !.entry_time = t,
        !.position_size = position_size,
        !.current_pyramids = 0,
        !.last_pyramid_price = OfInt(current_price)]

\* Lines 439-484
FlatBranch(s, current_price, l) ==
    \E m \in Markets :
        LET sig == << DetectTrendDirection(m[1]), DetectConsolidation(m[2]),
                      DetectEntrySignal(m[3]) >>
            position_size == CalculateDynamicPosition(s.volatility_history)
            l2 == [l EXCEPT !.sig = sig, !.kline = m]
        IN IF AllSignals(sig)
           THEN \E o \in OrderOutcomes, p2 \in PositionsOutcomes :
                LET sent == << Order("open", "short", position_size, s) >>
                    v2 == VenueAfterOpen(venue, "short", position_size,
                                         current_price)
                    l3 == [l2 EXCEPT !.orders = sent, !.size = position_size,
                                     !.outcome = o, !.before = PositionState(s)]
                IN IF o = "ack"
                   THEN Done(OpenFill(s, p2, v2, now, position_size, current_price),
                             v2, [l3 EXCEPT !.ret = "opened"])
                   ELSE IF o = "nack"
                   THEN Done(s, venue, [l3 EXCEPT !.ret = "open_failed"])
                   ELSE Done(s, venue, [l3 EXCEPT !.ret = "error"])
           ELSE Done(s, venue, [l2 EXCEPT !.ret = "watching"])

\* run_triple_signal_strategy, lines 384-488: one decision cycle.
TripleSignalCycle(current_price) ==
    \E p1 \in PositionsOutcomes :
        LET s1 == UpdatePositionInfo(self, p1, venue, now)
            s2 == UpdatePriceHistory(s1, current_price)
            l == [NoLog("run_triple_signal_strategy") EXCEPT
                     !.held = HasPosition(s1), !.venue_held = venue.pos # 0,
                     !.price = current_price,
                     !.calls = << "get_positions", "get_current_price" >>]
        IN IF PriceMissing(current_price)
           THEN Done(s1, venue, [l EXCEPT !.ret = "no_price",
                                          !.seen = self.volatility_history])
           ELSE IF HasPosition(s2) THEN HoldBranch(s2, current_price, l)
           ELSE FlatBranch(s2, current_price, l)

run_triple_signal_strategy ==
    /\ Len(self.volatility_history) < MaxObs
    /\ \E current_price \in PriceOutcomes : TripleSignalCycle(current_price)

-----------------------------------------------------------------------------
(* The pyramid controller and the resync, called one at a time *)

\* execute_pyramid(current_price) on an open position (the call of line 433).
execute_pyramid ==
    /\ HasPosition(self)
    /\ \E current_price \in Prices, o \in OrderOutcomes :
        LET r == ExecutePyramid(self, current_price, o)
            l == [NoLog("execute_pyramid") EXCEPT !.orders = r.orders, !.ret = r.ret,
                                                  !.outcome = IF r.orders = << >>
                                                              THEN None ELSE o,
                                                  !.before = PositionState(self),
                                                  !.held = TRUE,
                                                  !.price = current_price,
                                                  !.pyramids = self.current_pyramids,
                                                  !.limit = self.max_pyramids]
        IN Done(r.s,
                IF o = "ack" /\ r.orders # << >>
                THEN VenueAfterOpen(venue, r.orders[1].side, r.orders[1].size,
                                    current_price)
                ELSE venue,
                l)

\* check_pyramid_conditions(current_price) (the call of line 430).
check_pyramid_conditions ==
    \E current_price \in Prices, k \in PyramidKlines :
        LET c == CheckPyramidConditions(self, current_price, k) IN
        /\ log' = [NoLog("check_pyramid_conditions") EXCEPT
                      !.ret = c.reason,
                      !.pyr = IF c.raised THEN "raise" ELSE Tri(c.ok),
                      !.kline = k,
                      !.held = self.position # None,
                      !.price = current_price,
                      !.pyramids = self.current_pyramids,
                      !.limit = self.max_pyramids]
        /\ UNCHANGED <<self, venue, now, loop, rt, dp>>

\* _update_position_info() (the calls of lines 388 and 456).
update_position_info ==
    \E p \in PositionsOutcomes :
        /\ self' = UpdatePositionInfo(self, p, venue, now)
        /\ log' = [NoLog("_update_position_info") EXCEPT
                      !.ret = IF p = "malformed" THEN "False" ELSE "True",
                      !.reason = p,
                      !.venue_held = venue.pos # 0]
        /\ UNCHANGED <<venue, now, loop, rt, dp>>

\* The prices the risk rules are asked about: a gain and a loss of more than 5%
\* for either side of an entry at 120, and a loss of exactly 5% for a short.
RiskPrices == {106, 120, 126}

\* check_stop_loss_conditions(current_price) (the call of line 401).
check_stop_loss_conditions ==
    \E current_price \in RiskPrices, k \in StopKlines :
        LET c == CheckStopLossConditions(self, current_price, k, now) IN
        /\ log' = [NoLog("check_stop_loss_conditions") EXCEPT
                      !.ret = IF c.raised THEN "raise" ELSE Tri(c.fired),
                      !.reason = c.reason,
                      !.held = HasPosition(self),
                      !.price = current_price,
                      !.kline = k, !.t = now]
        /\ UNCHANGED <<self, venue, now, loop, rt, dp>>

\* check_take_profit_conditions(current_price) (the call of line 416).
check_take_profit_conditions ==
    \E current_price \in RiskPrices :
        LET c == CheckTakeProfitConditions(self, current_price) IN
        /\ log' = [NoLog("check_take_profit_conditions") EXCEPT
                      !.ret = Tri(c.fired),
                      !.reason = c.reason,
                      !.held = HasPosition(self),
                      !.price = current_price]
        /\ UNCHANGED <<self, venue, now, loop, rt, dp>>

-----------------------------------------------------------------------------
(* Operator commands *)

\* What an operator types: a count, or text that is no number.
CountInputs == {NaN, 0, 1, 4}

\* set_max_pyramids: int(count), rejected below 1.
SetMaxPyramids(s, count) ==
    IF count = NaN \/ count < 1 THEN s ELSE [s EXCEPT !.max_pyramids = count]

set_max_pyramids ==
    \E count \in CountInputs :
        /\ self' = SetMaxPyramids(self, count)
        /\ log' = [NoLog("set_max_pyramids") EXCEPT
                      !.ret = IF count = NaN \/ count < 1 THEN "rejected" ELSE "accepted"]
        /\ UNCHANGED <<venue, now, loop, rt, dp>>

\* What float(percentage) is given: text it cannot parse, the text "nan", or a
\* number.
NotNumeric == -3

PercentInputs == {NotNumeric, NaN, -1, 0, 1}

\* "percentage = float(percentage)" raises ValueError, or "percentage <= 0"
RejectsPercent(percentage) ==
    percentage = NotNumeric \/ (percentage # NaN /\ percentage <= 0)

\* set_stop_loss, lines 667-677 (and strategy.py 320-330)
set_stop_loss ==
    \E percentage \in PercentInputs :
        /\ self' = IF RejectsPercent(percentage) THEN self
                   ELSE [self EXCEPT !.stop_loss_percentage = percentage]
        /\ log' = [NoLog("set_stop_loss") EXCEPT
                      !.ret = IF RejectsPercent(percentage) THEN "rejected"
                              ELSE "accepted",
                      !.size = percentage]
        /\ UNCHANGED <<venue, now, loop, rt, dp>>

\* set_take_profit, lines 679-689 (and strategy.py 332-342)
set_take_profit ==
    \E percentage \in PercentInputs :
        /\ self' = IF RejectsPercent(percentage) THEN self
                   ELSE [self EXCEPT !.take_profit_percentage = percentage]
        /\ log' = [NoLog("set_take_profit") EXCEPT
                      !.ret = IF RejectsPercent(percentage) THEN "rejected"
                              ELSE "accepted",
                      !.size = percentage]
        /\ UNCHANGED <<venue, now, loop, rt, dp>>

\* toggle_pyramid(enabled=None): switch, or set to the value given.
toggle_pyramid ==
    \E enabled \in {"None", "True", "False"} :
        /\ self' = [self EXCEPT !.pyramid_enabled =
                        IF enabled = "None" THEN ~self.pyramid_enabled
                        ELSE enabled = "True"]
        /\ log' = [NoLog("toggle_pyramid") EXCEPT !.ret = "accepted"]
        /\ UNCHANGED <<venue, now, loop, rt, dp>>

-----------------------------------------------------------------------------
(* The environment *)

\* The position at the venue changes without the strategy: a manual trade, a
\* liquidation, another process.
VenueChange ==
    /\ \E v \in ManualPositions : v # venue /\ venue' = v
    /\ UNCHANGED <<self, now, log, loop, rt, dp>>

\* The same, kept in the log: the position is closed, opened from flat, replaced
\* by one on the other side, or closed and opened again on the side it had.
VenueEvent ==
    \E v \in ManualPositions :
        /\ v.pos # 0 \/ venue.pos # 0
        /\ venue' = v
        /\ log' = [NoLog("venue") EXCEPT
                      !.ret = IF v.pos = 0 THEN "closed"
                              ELSE IF venue.pos = 0 THEN "opened"
                              ELSE IF SideOf(v.pos) # SideOf(venue.pos)
                              THEN "side_changed"
                              ELSE "reopened",
                      !.venue_held = v.pos # 0]
        /\ UNCHANGED <<self, now, loop, rt, dp>>

Tick ==
    /\ now < MaxTime
    /\ now' = now + 1
    /\ UNCHANGED <<self, venue, log, loop, rt, dp>>

-----------------------------------------------------------------------------
(* The strategy with its venue *)

InitStrategy ==
    /\ venue \in ManualPositions
    /\ now = 0
    /\ \E p \in PositionsOutcomes : self = UpdatePositionInfo(Constructed, p, venue, now)
    /\ log = NoLog("__init__")
    /\ loop = [pc |-> "created", cycles |-> 0]

Idle == rt = [pc |-> "idle"] /\ dp = [pc |-> "idle"]

Init == InitStrategy /\ Idle

\* Decision cycles against a venue that also moves by itself.
Next ==
    \/ run_triple_signal_strategy
    \/ toggle_pyramid
    \/ VenueChange
    \/ Tick

Spec == Init /\ [][Next]_vars

\* The pyramid controller under fills, resyncs and operator commands.
NextPyramid ==
    \/ execute_pyramid
    \/ check_pyramid_conditions
    \/ update_position_info
    \/ set_max_pyramids
    \/ toggle_pyramid
    \/ VenueChange

SpecPyramid == Init /\ [][NextPyramid]_vars

\* Every path that submits an order: the cycle, and the pyramid add on its own,
\* from each position the venue can start with.
NextOrders ==
    \/ run_triple_signal_strategy
    \/ execute_pyramid
    \/ toggle_pyramid

SpecOrders == Init /\ [][NextOrders]_vars

\* The resync against a venue whose moves are on record.
NextResync ==
    \/ update_position_info
    \/ execute_pyramid
    \/ toggle_pyramid
    \/ VenueEvent
    \/ Tick

SpecResync == Init /\ [][NextResync]_vars

\* The risk rules asked directly, under resyncs and the operator's settings.
NextRisk ==
    \/ check_stop_loss_conditions
    \/ check_take_profit_conditions
    \/ set_stop_loss
    \/ set_take_profit
    \/ set_max_pyramids
    \/ update_position_info
    \/ VenueChange
    \/ Tick

SpecRisk == Init /\ [][NextRisk]_vars

\* The cycle on a position taken over from the venue, entered a little above
\* the market, while the operator moves the take-profit.
InitHold ==
    /\ venue = [pos |-> -5, avgPx |-> OfInt(108), adds |-> 0]
    /\ now = 0
    /\ \E p \in PositionsOutcomes : self = UpdatePositionInfo(Constructed, p, venue, now)
    /\ log = NoLog("__init__")
    /\ loop = [pc |-> "created", cycles |-> 0]
    /\ Idle

NextHold ==
    \/ run_triple_signal_strategy
    \/ set_take_profit
    \/ toggle_pyramid
    \/ Tick

SpecHold == InitHold /\ [][NextHold]_vars

\* Pyramid adds and resyncs on a venue nobody else trades on: a position the
\* venue holds stays on its side for good.
NextFills ==
    \/ execute_pyramid
    \/ update_position_info
    \/ toggle_pyramid

SpecFills == Init /\ [][NextFills]_vars

-----------------------------------------------------------------------------
(* The scheduler: AdvancedTradingStrategy.run_strategy *)

\* available_strategies, and an id that is not among them.
StrategyIds ==
    {"triple_signal", "volatility_breakout", "trend_following", "mean_reversion",
     "original"}

StrategyInputs == StrategyIds \cup {"unknown"}

\* The coroutines of lines 782-825, which the class body binds to the names
\* run_*_strategy after the definitions of lines 384-598: each returns its text.
RunSelectedStrategy(current_strategy) ==
    IF current_strategy \in StrategyIds THEN "stub_result" ELSE "unknown_strategy"

\* asyncio.create_task(strategy.run_strategy()) (main.py:173): the one task, which
\* has not run yet.
TaskPending(l) == l.pc = "created"

\* run_strategy, lines 600-630: running is set, the selected coroutine is
\* awaited and its non-empty result is returned to the caller.  The log keeps what
\* the venue held and what the evaluators and the sizing would have answered;
\* the coroutine awaited makes no adapter call.
run_strategy ==
    /\ TaskPending(loop)
    /\ \E m \in Markets :
        /\ self' = [self EXCEPT !.running = TRUE]
        /\ loop' = [pc |-> "returned", cycles |-> loop.cycles + 1]
        /\ log' = [NoLog("run_strategy") EXCEPT
                      !.ret = RunSelectedStrategy(self.current_strategy),
                      !.venue_held = venue.pos # 0,
                      !.sig = << DetectTrendDirection(m[1]), DetectConsolidation(m[2]),
                                 DetectEntrySignal(m[3]) >>,
                      !.size = CalculateDynamicPosition(self.volatility_history)]
    /\ UNCHANGED <<venue, now, rt, dp>>

\* Any id taken as it comes.
StrategyAcceptedAlways(strategy_id) == TRUE

\* "strategy_id in self.available_strategies" (line 634 negated, and
\* telegram_bot.py:751)
StrategyAccepted(strategy_id) == strategy_id \in StrategyIds

\* set_strategy(strategy_id)
set_strategy ==
    \E strategy_id \in StrategyInputs :
        /\ self' = IF StrategyAccepted(strategy_id)
                   THEN [self EXCEPT !.current_strategy = strategy_id] ELSE self
        /\ log' = [NoLog("set_strategy") EXCEPT
                      !.ret = IF StrategyAccepted(strategy_id) THEN "accepted"
                              ELSE "rejected",
                      !.reason = strategy_id]
        /\ UNCHANGED <<venue, now, loop, rt, dp>>

\* TelegramBot.handle_callback on a strategy button.  The menu gives each listed
\* id the data "strategy_" + id (telegram_bot.py:889); the data is kept here as
\* its pieces between underscores, and the handler reads the second piece as
\* the id (callback_data.split("_")[1]).  An id that is not listed is passed over
\* without a message.  The user who pressed the button is or is not one
\* _check_authorized would pass; the handler does not call it.
handle_callback ==
    \E authorized \in BOOLEAN :
    \E callback_data \in { << "strategy", "triple", "signal" >>,
                           << "strategy", "volatility", "breakout" >>,
                           << "strategy", "trend", "following" >>,
                           << "strategy", "mean", "reversion" >>,
                           << "strategy", "original" >>,
                           << "strategy", "" >> } :
        LET strategy_id == callback_data[2] IN
        /\ self' = IF StrategyAccepted(strategy_id)
                   THEN [self EXCEPT !.current_strategy = strategy_id] ELSE self
        /\ log' = [NoLog("handle_callback") EXCEPT
                      !.ret = IF StrategyAccepted(strategy_id) THEN "accepted"
                              ELSE "ignored",
                      !.outcome = IF authorized THEN "authorized"
                                  ELSE "unauthorized",
                      !.reason = strategy_id]
        /\ UNCHANGED <<venue, now, loop, rt, dp>>

\* TelegramBot.stop_command: an authorized user's /stop calls strategy.stop().
stop_command ==
    \E authorized \in BOOLEAN :
        /\ self' = IF authorized THEN [self EXCEPT !.running = FALSE] ELSE self
        /\ log' = [NoLog("stop_command") EXCEPT
                      !.ret = IF authorized THEN "stopped" ELSE "unauthorized"]
        /\ UNCHANGED <<venue, now, loop, rt, dp>>

\* A /run that sets running and has the loop's task created again.
run_command_restarting ==
    \E authorized \in BOOLEAN :
        /\ self' = IF authorized THEN [self EXCEPT !.running = TRUE] ELSE self
        /\ loop' = IF authorized THEN [loop EXCEPT !.pc = "created"] ELSE loop
        /\ log' = [NoLog("run_command") EXCEPT
                      !.ret = IF authorized THEN "started" ELSE "unauthorized"]
        /\ UNCHANGED <<venue, now, rt, dp>>

\* TelegramBot.run_command: strategy.start() is no attribute of
\* AdvancedTradingStrategy; the AttributeError is caught and reported.
run_command ==
    \E authorized \in BOOLEAN :
        /\ log' = [NoLog("run_command") EXCEPT
                      !.ret = IF authorized THEN "error" ELSE "unauthorized"]
        /\ UNCHANGED <<self, venue, now, loop, rt, dp>>

\* stop()
stop ==
    /\ self' = [self EXCEPT !.running = FALSE]
    /\ log' = [NoLog("stop") EXCEPT !.ret = "stopped"]
    /\ UNCHANGED <<venue, now, loop, rt, dp>>

NextLoop ==
    \/ run_strategy
    \/ set_strategy
    \/ handle_callback
    \/ stop
    \/ VenueChange

SpecLoop == Init /\ [][NextLoop]_vars

\* The program as main() wires it: strategy_task is created before
\* telegram_task (main.py:173-174) and runs to its return without suspending, so the
\* bot polls, and its handlers run, only once loop.pc has left "created".
NextTasks ==
    \/ run_strategy
    \/ ~TaskPending(loop) /\ stop_command
    \/ ~TaskPending(loop) /\ run_command
    \/ ~TaskPending(loop) /\ handle_callback
    \/ VenueChange

SpecTasks == Init /\ [][NextTasks]_vars

\* run_strategy up to the choice of the coroutine (lines 602-616): running is
\* set and current_strategy is read.
run_strategy_enter ==
    /\ TaskPending(loop)
    /\ self' = [self EXCEPT !.running = TRUE]
    /\ loop' = [pc |-> "in_cycle", cycles |-> loop.cycles,
                selected |-> self.current_strategy]
    /\ log' = NoLog("run_strategy")
    /\ UNCHANGED <<venue, now, rt, dp>>

\* The coroutine chosen is awaited and its result returned (lines 607-620).
run_strategy_await ==
    /\ loop.pc = "in_cycle"
    /\ loop' = [pc |-> "returned", cycles |-> loop.cycles + 1,
                selected |-> loop.selected]
    /\ log' = [NoLog("run_strategy") EXCEPT
                  !.ret = RunSelectedStrategy(loop.selected),
                  !.reason = loop.selected]
    /\ UNCHANGED <<self, venue, now, rt, dp>>

\* A task that gives the event loop away wherever it stands in its cycle.
LoopSuspendedInCycle(l) == l.pc # "created"

\* The strategy task has given the event loop to the bot's handlers: none of
\* the coroutines it awaits suspends (lines 782-825 hold no await), so it does
\* that by returning and nowhere before.
LoopSuspended(l) == l.pc = "returned"

\* The cycle taken in two steps, with the handlers that write the strategy.
NextConfig ==
    \/ run_strategy_enter
    \/ run_strategy_await
    \/ LoopSuspended(loop) /\ handle_callback
    \/ LoopSuspended(loop) /\ stop_command
    \/ VenueChange

SpecConfig == Init /\ [][NextConfig]_vars

-----------------------------------------------------------------------------
(* TradingStrategy (strategy.py): the cycle of the original strategy *)

\* TradingStrategy.__init__ up to the call of _update_position_info.
BasicConstructed ==
    [ position |-> None, entry_price |-> Zero, position_size |-> NoAttr,
      stop_loss_percentage |-> DEFAULT_STOP_LOSS,
      take_profit_percentage |-> DEFAULT_TAKE_PROFIT,
      volatility_history |-> << >>, last_position_check |-> 0,
      running |-> FALSE ]

\* TradingStrategy._update_position_info, as bound last (lines 359-377).
BasicUpdatePositionInfo(s, outcome, v) ==
    LET cleared == [s EXCEPT !.position = None, !.entry_price = Zero] IN
    IF outcome # "ok" \/ v.pos = 0 THEN cleared
    ELSE [cleared EXCEPT !.position = SideOf(v.pos),
                         !.entry_price = v.avgPx,
                         !.position_size = Abs(v.pos)]

\* get_kline_data(timeframe="1h", limit=100) with what should_open_short and
\* should_close_short answer on the frame.
BasicFrames ==
    { [fetch |-> "raise", open |-> FALSE, close |-> FALSE],
      [fetch |-> "none", open |-> FALSE, close |-> FALSE] }
    \cup { [fetch |-> "ok", open |-> a, close |-> b] : a, b \in BOOLEAN }

\* _check_position_adjustment once its ten minutes are over: the size it would
\* move to, and whether that is a change of more than 10%.
AdjustedSize(h) ==
    LET v == CalculateVolatility(h) IN
    IF ~Positive(v) THEN 0
    ELSE IF v.n <= 2 * v.d THEN Min2(POSITION_SIZE, POSITION_SIZE \div 2)
    ELSE Min2(POSITION_SIZE, Round3(POSITION_SIZE * v.d, v.n))

AdjustmentReported(s) ==
    /\ Positive(CalculateVolatility(s.volatility_history))
    /\ s.position # None
    /\ 10 * Abs(AdjustedSize(s.volatility_history) - s.position_size) > s.position_size

BasicOrder(kind, side, size) ==
    [kind |-> kind, side |-> side, size |-> size, pyramids |-> 0, limit |-> 0]

\* _check_stop_loss and _check_take_profit from the close on (lines 393-403 and
\* 422-432): [s, venue, log]
BasicClose(s, v, reason, o, p2, l) ==
    LET v2 == VenueAfterClose(v, s.position)
        l2 == [l EXCEPT !.orders = << BasicOrder("close", s.position, 0) >>,
                        !.reason = reason, !.outcome = o]
    IN IF o = "ack"
       THEN [s |-> BasicUpdatePositionInfo(s, p2, v2), venue |-> v2,
             log |-> [l2 EXCEPT !.ret = "closed"]]
       ELSE IF o = "nack"
       THEN [s |-> s, venue |-> v, log |-> [l2 EXCEPT !.ret = "close_failed"]]
       ELSE [s |-> s, venue |-> v, log |-> [l2 EXCEPT !.ret = "none"]]

\* Lines 152-174: the signal branch, which returns its text without reading
\* the adapter's result: [s, venue, log]
BasicSignal(s, v, df, current_price, o, l) ==
    IF s.position = None
    THEN IF df.open
         THEN [s |-> s,
               venue |-> IF o = "ack"
                         THEN VenueAfterOpen(v, "short", POSITION_SIZE, current_price)
                         ELSE v,
               log |-> [l EXCEPT
                           !.orders = << BasicOrder("open", "short", POSITION_SIZE) >>,
                           !.size = POSITION_SIZE, !.outcome = o,
                           !.ret = IF o = "raise" THEN "none" ELSE "open_signal"]]
         ELSE [s |-> s, venue |-> v, log |-> [l EXCEPT !.ret = "watching"]]
    ELSE IF s.position = "short"
    THEN IF df.close
         THEN [s |-> s,
               venue |-> IF o = "ack" THEN VenueAfterClose(v, "short") ELSE v,
               log |-> [l EXCEPT
                           !.orders = << BasicOrder("close", "short", 0) >>,
                           !.outcome = o,
                           !.ret = IF o = "raise" THEN "none" ELSE "close_signal"]]
         ELSE [s |-> s, venue |-> v, log |-> [l EXCEPT !.ret = "holding"]]
    ELSE [s |-> s,
          venue |-> IF o = "ack" THEN VenueAfterClose(v, "long") ELSE v,
          log |-> [l EXCEPT
                      !.orders = << BasicOrder("close", "long", 0) >>,
                      !.outcome = o,
                      !.ret = IF o = "raise" THEN "none" ELSE "close_long_signal"]]

\* TradingStrategy.run_strategy, lines 112-178, on object s with venue v at
\* time t: [s, venue, log].  An exception anywhere returns None (line 176).
BasicCycle(s, v, t, df, p1, current_price, due, o, p2) ==
    LET l0 == NoLog("TradingStrategy.run_strategy")
        s1 == BasicUpdatePositionInfo(s, p1, v)
        l == [l0 EXCEPT !.held = HasPosition(s1), !.venue_held = v.pos # 0,
                        !.price = current_price,
                        !.calls = << "get_kline_data", "get_positions",
                                     "get_current_price" >>]
        s2 == UpdatePriceHistory(s1, current_price)
        s3 == IF due THEN [s2 EXCEPT !.last_position_check = t] ELSE s2
    IN IF df.fetch # "ok"
       THEN [s |-> s, venue |-> v, log |-> [l0 EXCEPT !.ret = "none"]]
       ELSE IF PriceMissing(current_price)
       THEN [s |-> s1, venue |-> v,
             log |-> [l EXCEPT !.ret = "no_price",
                               !.seen = s.volatility_history]]
       ELSE IF ~HasPosition(s2) THEN BasicSignal(s2, v, df, current_price, o, l)
       ELSE IF FixedStopHit(s2, current_price)
       THEN BasicClose(s2, v, "fixed", o, p2, l)
       ELSE IF CheckTakeProfitConditions(s2, current_price).fired
       THEN BasicClose(s2, v, "take_profit", o, p2, l)
       ELSE IF due /\ AdjustmentReported(s3)
       THEN [s |-> s3, venue |-> v,
             log |-> [l EXCEPT !.ret = "adjusted",
                               !.size = AdjustedSize(s3.volatility_history)]]
       ELSE BasicSignal(s3, v, df, current_price, o, l)

TradingStrategyCycle(current_price) ==
    /\ "last_position_check" \in DOMAIN self
    /\ \E df \in BasicFrames, p1, p2 \in PositionsOutcomes,
          due \in BOOLEAN, o \in OrderOutcomes :
        LET r == BasicCycle(self, venue, now, df, p1, current_price, due, o, p2) IN
        /\ self' = r.s
        /\ venue' = r.venue
        /\ log' = r.log
        /\ UNCHANGED <<now, loop, rt, dp>>

TradingStrategy_run_strategy ==
    /\ Len(self.volatility_history) < MaxObs
    /\ \E current_price \in PriceOutcomes : TradingStrategyCycle(current_price)

InitBasic ==
    /\ venue \in ManualPositions
    /\ now = 0
    /\ \E p \in PositionsOutcomes : self = BasicUpdatePositionInfo(BasicConstructed, p, venue)
    /\ log = NoLog("__init__")
    /\ loop = [pc |-> "created", cycles |-> 0]
    /\ Idle

\* "current_pyramids" is an attribute of AdvancedTradingStrategy only.
IsAdvanced(s) == "current_pyramids" \in DOMAIN s

\* The decision cycles of both classes, each on an object of its own class.
NextCycles ==
    \/ IsAdvanced(self) /\ run_triple_signal_strategy
    \/ IsAdvanced(self) /\ toggle_pyramid
    \/ TradingStrategy_run_strategy
    \/ VenueChange
    \/ Tick

SpecCycles == (Init \/ InitBasic) /\ [][NextCycles]_vars

-----------------------------------------------------------------------------
(* The price window of either class, fed one observation at a time *)

HistoryPrices == {106, 107}

\* _update_price_history(current_price); log.seen keeps every price handed in.
update_price_history ==
    /\ Len(log.seen) < MaxSeen
    /\ \E current_price \in HistoryPrices :
        LET seen == Append(log.seen, current_price) IN
        /\ Cardinality({i \in 1..(Len(seen) - 1) : seen[i] # seen[i + 1]}) <= MaxSwitches
        /\ self' = UpdatePriceHistory(self, current_price)
        /\ log' = [NoLog("_update_price_history") EXCEPT
                      !.price = current_price, !.seen = seen]
        /\ UNCHANGED <<venue, now, loop, rt, dp>>

SpecHistory == (Init \/ InitBasic) /\ [][update_price_history]_vars

\* Decision cycles of both classes over every kind of price read, followed for
\* long enough that _calculate_volatility gets its five samples.
MaxHistory == 5

PriceReads == HistoryPrices \cup {0, PriceNone}

\* The reads the model follows: failed reads at any time, and up to MaxHistory
\* prices of a market that does not fall.
FollowedRead(h, current_price) ==
    IF current_price \notin HistoryPrices \/ h = << >> THEN TRUE
    ELSE Len(h) < MaxHistory /\ h[Len(h)] <= current_price

NextPrices ==
    \/ /\ IsAdvanced(self)
       /\ \E current_price \in PriceReads :
            /\ FollowedRead(self.volatility_history, current_price)
            /\ TripleSignalCycle(current_price)
    \/ \E current_price \in PriceReads :
            /\ FollowedRead(self.volatility_history, current_price)
            /\ TradingStrategyCycle(current_price)

SpecPrices == (Init \/ InitBasic) /\ [][NextPrices]_vars

-----------------------------------------------------------------------------
(* The bot's notifications: send_message, the offline queue and reconnect *)

MaxSends == 4       \* send_message calls the model follows
ClockStep == 30     \* seconds of time.time() one step of the clock stands for
MaxClock == 240     \* last reading of the clock

\* self.min_retry_interval
min_retry_interval == 60

\* TelegramBot.__init__ once main() has awaited _init_bot(): online, nothing
\* queued, last_retry_time 0.  rt holds the bot, the sink (reachable or not, and
\* what it has been delivered) and the reading of time.time(), which is at least
\* min_retry_interval past 0.  A message is named by the number of its call.
InitNotify ==
    /\ InitStrategy
    /\ dp = [pc |-> "idle"]
    /\ rt = [pc |-> "bot", is_offline |-> FALSE, offline_messages |-> << >>,
             last_retry_time |-> 0, time |-> min_retry_interval,
             reachable |-> TRUE, delivered |-> << >>, calls |-> 0]

\* reconnect().  self._init_bot() is written without await: the call makes a
\* coroutine object and its body, the one place that sets is_offline = False,
\* is not run, so is_offline is what it was when line 857 tests it.
Reconnect(b) ==
    IF b.time - b.last_retry_time < min_retry_interval
    THEN [bot |-> b, ret |-> FALSE]
    ELSE LET b1 == [b EXCEPT !.last_retry_time = b.time] IN
         IF ~b1.is_offline
         THEN [bot |-> [b1 EXCEPT !.delivered = @ \o b1.offline_messages,
                                  !.offline_messages = << >>],
               ret |-> TRUE]
         ELSE [bot |-> b1, ret |-> FALSE]

\* send_message(text)
send_message ==
    /\ rt.pc = "bot"
    /\ rt.calls < MaxSends
    /\ LET text == rt.calls + 1
           b == [rt EXCEPT !.calls = text]
           queued == [b EXCEPT !.offline_messages = Append(@, text)]
           l == [NoLog("send_message") EXCEPT !.size = text]
       IN IF b.is_offline
          THEN IF b.time - b.last_retry_time >= min_retry_interval
               THEN LET r == Reconnect(queued) IN
                    /\ rt' = r.bot
                    /\ log' = [l EXCEPT !.ret = IF r.ret THEN "reconnected"
                                                ELSE "queued",
                                        !.reason = "reconnect"]
               ELSE /\ rt' = queued
                    /\ log' = [l EXCEPT !.ret = "queued", !.reason = "too_soon"]
          ELSE IF b.reachable
          THEN /\ rt' = [b EXCEPT !.delivered = Append(@, text)]
               /\ log' = [l EXCEPT !.ret = "True", !.reason = "sent"]
          ELSE /\ rt' = [queued EXCEPT !.is_offline = TRUE]
               /\ log' = [l EXCEPT !.ret = "False", !.reason = "raised"]
    /\ UNCHANGED <<self, venue, now, loop, dp>>

\* The sink becomes unreachable, or reachable again.
sink_change ==
    /\ rt.pc = "bot"
    /\ rt' = [rt EXCEPT !.reachable = ~@]
    /\ log' = NoLog("sink")
    /\ UNCHANGED <<self, venue, now, loop, dp>>

\* time.time() moves on.
clock_step ==
    /\ rt.pc = "bot"
    /\ rt.time + ClockStep <= MaxClock
    /\ rt' = [rt EXCEPT !.time = @ + ClockStep]
    /\ log' = NoLog("clock")
    /\ UNCHANGED <<self, venue, now, loop, dp>>

NextNotify ==
    \/ send_message
    \/ sink_change
    \/ clock_step

SpecNotify == InitNotify /\ [][NextNotify]_vars

-----------------------------------------------------------------------------
(* OkxHandler: the two retry wrappers *)

\* What one attempt meets: an answer the wrapper accepts (HTTP status below 400,
\* result code '0'), an answer carrying the venue's error (status 400 or above,
\* another code), or an exception out of the call.
AttemptOutcomes == {"ok", "venue_error", "ssl", "timeout", "connection", "other"}

\* ssl.SSLError, requests Timeout and ConnectionError
Transient(o) == o \in {"ssl", "timeout", "connection"}

\* min(30, 2 ** retry_count); the jitter of _send_request_with_retry is below 1 s.
Backoff(retry_count) == Min2(MAX_WAIT, Pow2(retry_count))

\* The loop giving up one failure early, and one failure late.
RetryExhaustedEarly(retry_count) == retry_count >= max_retries - 1

RetryExhaustedLate(retry_count) == retry_count > max_retries

\* "while retry_count < max_retries" is over
RetryExhausted(retry_count) == retry_count >= max_retries

\* The locals of a wrapper before its loop, and the attempts counted so far.
Fresh(wrapper) ==
    [pc |-> "running", wrapper |-> wrapper, retry_count |-> 0, attempts |-> 0,
     first |-> None, last |-> None, last_error |-> None,
     transients |-> 0, rejected |-> 0, others |-> 0, wait |-> 0]

\* The bookkeeping of one more attempt with outcome o.
Attempted(r, o) ==
    [r EXCEPT !.attempts = r.attempts + 1,
              !.first = IF r.attempts = 0 THEN o ELSE r.first,
              !.last = o,
              !.transients = r.transients + (IF Transient(o) THEN 1 ELSE 0),
              !.rejected = r.rejected + (IF o = "venue_error" THEN 1 ELSE 0),
              !.others = r.others + (IF o = "other" THEN 1 ELSE 0)]

\* Leaving the loop: the last error is raised.
LoopOrRaise(r) ==
    IF RetryExhausted(r.retry_count) THEN [r EXCEPT !.pc = "raised"] ELSE r

\* One pass of the loop of _send_request_with_retry, lines 353-414, and the exit
\* of lines 416-419 when the loop ends.
SendAttempt(r, o) ==
    LET a == Attempted(r, o) IN
    IF o = "ok" THEN [a EXCEPT !.pc = "returned", !.wait = 0]
    ELSE IF o = "venue_error"
    THEN LoopOrRaise([a EXCEPT !.last_error = "venue_error", !.wait = 0])
    ELSE LoopOrRaise([a EXCEPT !.retry_count = r.retry_count + 1,
                               !.wait = Backoff(r.retry_count + 1),
                               !.last_error = o])

\* One pass of the loop of _call_api_with_retry, lines 464-503, and the raise of
\* line 506 when the loop ends.
CallAttempt(r, o) ==
    LET a == Attempted(r, o) IN
    IF o = "ok" THEN [a EXCEPT !.pc = "returned", !.wait = 0]
    ELSE IF Transient(o)
    THEN LoopOrRaise([a EXCEPT !.last_error = o,
                               !.wait = Backoff(r.retry_count),
                               !.retry_count = r.retry_count + 1])
    ELSE LoopOrRaise([a EXCEPT !.last_error = o,
                               !.retry_count = r.retry_count + 1,
                               !.wait = IF RetryExhausted(r.retry_count + 1) THEN 0
                                        ELSE Backoff(r.retry_count + 1)])

send_request_with_retry ==
    /\ rt.pc = "running" /\ rt.wrapper = "send" /\ rt.attempts < MaxAttempts
    /\ \E o \in AttemptOutcomes : rt' = SendAttempt(rt, o)
    /\ UNCHANGED <<self, venue, now, log, loop, dp>>

call_api_with_retry ==
    /\ rt.pc = "running" /\ rt.wrapper = "call" /\ rt.attempts < MaxAttempts
    /\ \E o \in AttemptOutcomes : rt' = CallAttempt(rt, o)
    /\ UNCHANGED <<self, venue, now, log, loop, dp>>

\* A strategy that takes no step while a wrapper or the sizing is looked at.
Parked ==
    /\ venue = Flat
    /\ now = 0
    /\ self = UpdatePositionInfo(Constructed, "ok", Flat, 0)
    /\ log = NoLog("__init__")
    /\ loop = [pc |-> "created", cycles |-> 0]

InitRetry ==
    /\ Parked
    /\ rt \in {Fresh("send"), Fresh("call")}
    /\ dp = [pc |-> "idle"]

NextRetry ==
    \/ send_request_with_retry
    \/ call_api_with_retry

SpecRetry == InitRetry /\ [][NextRetry]_vars

-----------------------------------------------------------------------------
(* calculate_dynamic_position on price windows *)

WinPrices == {100, 105, 120}

\* The contents volatility_history may have: up to MaxWin prices.
Windows == UNION { [1..n -> WinPrices] : n \in 0..MaxWin }

\* Windows a second strategy object holds, from a quiet to a wild market.
RefWindows ==
    { << >>,
      <<100, 100, 100, 105, 105>>,
      <<100, 105, 100, 105, 105>>,
      <<100, 105, 120, 105, 105>>,
      <<120, 105, 120, 120, 120>>,
      <<100, 120, 100, 120, 100>> }

\* calculate_dynamic_position on each of the two windows.
calculate_dynamic_position ==
    /\ dp.pc = "input"
    /\ dp' = [dp EXCEPT !.pc = "done",
                        !.vi = VolatilityIndex(dp.h),
                        !.size = CalculateDynamicPosition(dp.h),
                        !.ref_vi = VolatilityIndex(dp.ref),
                        !.ref_size = CalculateDynamicPosition(dp.ref)]
    /\ UNCHANGED <<self, venue, now, log, loop, rt>>

InitSize ==
    /\ Parked
    /\ rt = [pc |-> "idle"]
    /\ \E h \in Windows, ref \in RefWindows :
        dp = [pc |-> "input", h |-> h, ref |-> ref, vi |-> Zero, size |-> 0,
              ref_vi |-> Zero, ref_size |-> 0]

NextSize == calculate_dynamic_position

SpecSize == InitSize /\ [][NextSize]_vars

-----------------------------------------------------------------------------
(* Properties *)

OpenOrders(orders) == { i \in 1..Len(orders) : orders[i].kind = "open" }

PyramidOrders(orders) == { i \in 1..Len(orders) : orders[i].kind = "pyramid" }

\* C1: with current_pyramids >= max_pyramids, check_pyramid_conditions returns
\* false (and does not raise) and execute_pyramid submits no order.
C1_NoPyramidAtLimit ==
    (log.op \in {"check_pyramid_conditions", "execute_pyramid"}
        /\ log.pyramids >= log.limit)
    => /\ log.orders = << >>
       /\ log.op = "check_pyramid_conditions" => log.pyr = "False"
       /\ log.op = "execute_pyramid" => log.ret = "pyramid_blocked"

\* execute_pyramid was called with pyramiding enabled and the count at its limit
\* after a fill.
C1_Witness ==
    /\ log.op = "execute_pyramid"
    /\ self.pyramid_enabled
    /\ log.pyramids > 0
    /\ log.pyramids >= log.limit
    /\ log.ret = "pyramid_blocked"

\* C2: a cycle that starts while the venue holds a non-zero position submits no
\* opening order, whatever the evaluators return.
C2_NoOpenOnHeldVenue ==
    (log.op = "run_triple_signal_strategy" /\ log.venue_held)
    => OpenOrders(log.orders) = {}

\* C3: position_size > 0 exactly when position is not None, and entry_price > 0
\* exactly when position is not None.
C3_SizeAndEntryFollowPosition ==
    /\ (self.position_size > 0) <=> (self.position # None)
    /\ Positive(self.entry_price) <=> (self.position # None)

\* C4: 0 <= current_pyramids <= max_pyramids in every reachable state.
C4_PyramidsWithinLimit ==
    0 <= self.current_pyramids /\ self.current_pyramids <= self.max_pyramids

\* C5: after N < 5 consecutive transient errors a wrapper is still trying, and
\* when the next attempt succeeds it returns the result after exactly N + 1
\* attempts.
C5_SuccessAfterTransients ==
    (rt.pc # "idle" /\ rt.rejected = 0 /\ rt.others = 0)
    => /\ (rt.attempts > 0 /\ rt.last # "ok" /\ rt.transients < 5) => rt.pc = "running"
       /\ rt.last = "ok" => /\ rt.pc = "returned"
                            /\ rt.transients < 5
                            /\ rt.attempts = rt.transients + 1

\* _send_request_with_retry returned after four transient errors and a success.
C5_Witness ==
    /\ rt.pc = "returned" /\ rt.wrapper = "send"
    /\ rt.transients = 4 /\ rt.rejected = 0 /\ rt.others = 0
    /\ rt.attempts = 5

\* C6: when every attempt fails with a transient error, a wrapper makes at most
\* 5 attempts and then raises the last transient error.
C6_GivesUpAfterFive ==
    (rt.pc # "idle" /\ rt.rejected = 0 /\ rt.others = 0 /\ rt.last # "ok")
    => /\ rt.attempts <= 5
       /\ rt.attempts = 5 => /\ rt.pc = "raised"
                             /\ rt.last_error = rt.last
                             /\ Transient(rt.last_error)
       /\ rt.pc = "raised" => rt.attempts = 5

\* _call_api_with_retry raised after five transient errors.
C6_Witness ==
    /\ rt.pc = "raised" /\ rt.wrapper = "call"
    /\ rt.transients = 5 /\ rt.attempts = 5
    /\ rt.last_error = "timeout"

\* C7: a venue-returned error or a non-network exception causes exactly one
\* attempt: the error is raised at once and the call is not retried.
C7_NoRetryOfRejection ==
    (rt.pc # "idle" /\ rt.first \in {"venue_error", "other"})
    => rt.attempts = 1 /\ rt.pc = "raised"

\* C8: the size does not increase with the volatility index, and lies between
\* a tenth of POSITION_SIZE and POSITION_SIZE after rounding.
C8_SizeMonotoneAndBounded ==
    dp.pc = "done"
    => /\ FracLeq(dp.vi, dp.ref_vi) => dp.size >= dp.ref_size
       /\ FracLeq(dp.ref_vi, dp.vi) => dp.ref_size >= dp.size
       /\ 10 * dp.size >= POSITION_SIZE /\ dp.size <= POSITION_SIZE
       /\ 10 * dp.ref_size >= POSITION_SIZE /\ dp.ref_size <= POSITION_SIZE

\* Two windows of different index: the calmer one sized above the floor, the
\* wilder one at the floor.
C8_Witness ==
    /\ dp.pc = "done"
    /\ ~FracLeq(dp.ref_vi, dp.vi)
    /\ dp.size > dp.ref_size
    /\ 10 * dp.ref_size = POSITION_SIZE

\* C9: a confirmed pyramid fill at price P with size S on entry price E and size
\* Q leaves entry_price = (E * Q + P * S) / (Q + S).
C9_WeightedEntryAfterFill ==
    [][ (/\ log'.op = "execute_pyramid"
         /\ log'.ret = "pyramid_done"
         /\ self'.current_pyramids = self.current_pyramids + 1)
        => LET E == self.entry_price
               Q == self.position_size
               P == log'.price
               S == log'.orders[1].size
           IN self'.entry_price.n * E.d * (Q + S)
                = (E.n * Q + P * S * E.d) * self'.entry_price.d ]_vars

\* A second fill, of another size than the first, was confirmed.
C9_Witness ==
    /\ log.op = "execute_pyramid"
    /\ log.ret = "pyramid_done"
    /\ self.current_pyramids = 2
    /\ self.position_size = 13
    /\ ~FracEq(self.entry_price, OfInt(log.price))

\* C10: a cycle of the orchestrator that starts flat with the three evaluators
\* true submits exactly one order, an open-short of the size
\* calculate_dynamic_position returns.
C10_OneSizedShortPerSignal ==
    (log.op = "run_strategy" /\ ~log.venue_held /\ AllSignals(log.sig))
    => /\ Len(log.orders) = 1
       /\ log.orders[1].kind = "open"
       /\ log.orders[1].side = "short"
       /\ log.orders[1].size = log.size

\* C11: with a position open and the loss at or beyond stop_loss_percentage,
\* check_stop_loss_conditions answers (True, fixed stop) whatever the candle
\* fetch gives.
C11_FixedStopBeforeCandles ==
    (/\ log.op = "check_stop_loss_conditions"
     /\ log.held
     /\ FixedStopHit(self, log.price))
    => (log.ret = "True" /\ log.reason = "fixed")


\* C12: a cycle run while pyramid_enabled is false neither evaluates
\* check_pyramid_conditions nor submits a pyramid add order.
C12_NoPyramidWhileDisabled ==
    (log.op = "run_triple_signal_strategy" /\ ~self.pyramid_enabled)
    => (log.pyr = "n/a" /\ PyramidOrders(log.orders) = {})

\* A cycle on an open position that no risk rule closes, the switch off.
C12_Witness ==
    /\ log.op = "run_triple_signal_strategy"
    /\ ~self.pyramid_enabled
    /\ log.held
    /\ log.ret = "observing"
    /\ self.position # None


CycleOps == {"run_triple_signal_strategy", "TradingStrategy.run_strategy"}

\* C13: a decision cycle of either class submits at most one order, also when
\* its close order fails.
C13_AtMostOneOrderPerCycle ==
    (log.op \in CycleOps) => Len(log.orders) <= 1

\* A cycle of TradingStrategy whose stop-loss close the venue declined.
C13_Witness ==
    /\ log.op = "TradingStrategy.run_strategy"
    /\ log.ret = "close_failed"
    /\ log.reason = "fixed"
    /\ Len(log.orders) = 1


\* C14: the cycle run_strategy runs for the selected variant reads the
\* position from the venue first and the price second, before anything else.
C14_ResyncThenPriceFirst ==
    (log.op = "run_strategy" /\ self.current_strategy \in StrategyIds)
    => (/\ Len(log.calls) >= 2
        /\ log.calls[1] = "get_positions"
        /\ log.calls[2] = "get_current_price")

\* C15: while the running flag is true the loop of run_strategy has not
\* terminated.
C15_LoopAliveWhileRunning ==
    self.running => loop.pc # "returned"


\* C16: a cycle whose order the venue did not acknowledge returns a text that
\* reports the failure, never a success or signal message.
C16_FailureReported ==
    (log.op \in CycleOps /\ log.orders # << >> /\ log.outcome = "nack")
    => log.ret \in {"open_failed", "close_failed", "pyramid_failed"}


\* C17: after an order the venue did not acknowledge (open, close or pyramid
\* add), position, entry_price, position_size, current_pyramids,
\* last_pyramid_price and entry_time are what they were before the submission,
\* and the order was submitted once.
C17_NackLeavesPositionState ==
    (/\ log.op \in {"run_triple_signal_strategy", "execute_pyramid"}
     /\ log.outcome = "nack")
    => (PositionState(self) = log.before /\ Len(log.orders) = 1)

\* A pyramid add the venue declined.
C17_Witness ==
    /\ log.op = "execute_pyramid"
    /\ log.outcome = "nack"
    /\ log.ret = "pyramid_failed"
    /\ self.position # None


\* C18: the setters leave stop_loss_percentage > 0, take_profit_percentage > 0
\* and max_pyramids >= 1 after any sequence of calls (a nan is not above 0).
C18_SettingsStayValid ==
    /\ self.stop_loss_percentage # NaN /\ self.stop_loss_percentage > 0
    /\ self.take_profit_percentage # NaN /\ self.take_profit_percentage > 0
    /\ self.max_pyramids >= 1


\* C19: the resync that follows the venue's position being opened from flat,
\* changing side, or being closed and opened again, and that reads the venue,
\* leaves current_pyramids at 0 and entry_time at the time of the resync.
C19_ResetOnVenueOpen ==
    [][(/\ log.op = "venue"
        /\ log.ret \in {"opened", "side_changed", "reopened"}
        /\ log'.op = "_update_position_info"
        /\ log'.reason = "ok")
       => (self'.current_pyramids = 0 /\ self'.entry_time = now)]_vars

\* The position the venue reports differs from the remembered one.
Mismatch(s, v) ==
    \/ s.position # SideOf(v.pos)
    \/ s.position_size # Abs(v.pos)
    \/ ~FracEq(s.entry_price, v.avgPx)

\* C20: a resync that reads an open position not matching the remembered one
\* adopts it, with current_pyramids reset to 0 and entry_time restamped.
C20_AdoptResetsPyramids ==
    [][(/\ log'.op = "_update_position_info"
        /\ log'.reason = "ok"
        /\ now' = now
        /\ venue.pos # 0
        /\ Mismatch(self, venue))
       => (/\ ~Mismatch(self', venue)
           /\ self'.current_pyramids = 0
           /\ self'.entry_time = now)]_vars


C23_StrategyAlwaysListed ==
    /\ [](self.current_strategy \in StrategyIds)
    /\ [][(log'.op \in {"set_strategy", "handle_callback"}
            /\ log'.reason \notin StrategyIds)
           => (/\ self'.current_strategy = self.current_strategy
               /\ log'.ret \in {"rejected", "ignored"})]_vars

\* An unknown id rejected after another strategy had been selected.
C23_Witness ==
    /\ log.op = "set_strategy"
    /\ log.reason = "unknown"
    /\ log.ret = "rejected"
    /\ self.current_strategy = "mean_reversion"


\* The first of the four rules, in the order fixed threshold, anchored trailing,
\* volatility breakout, time decay, that holds for object s.
FirstStopRule(s, current_price, k, t) ==
    IF FixedStopHit(s, current_price) THEN "fixed"
    ELSE IF TrailingStopHit(s, current_price, k) THEN "trailing"
    ELSE IF BreakoutStopHit(s, current_price, k) THEN "breakout"
    ELSE IF TimeDecayStopHit(s, current_price, t) THEN "time_decay"
    ELSE None

\* C24: on an open position check_stop_loss_conditions returns true with the
\* rationale of the first rule that holds, and (false, none) exactly when no
\* rule holds.
C24_FirstRuleWins ==
    (log.op = "check_stop_loss_conditions" /\ log.held)
    => LET first == FirstStopRule(self, log.price, log.kline, log.t) IN
       /\ log.reason = first
       /\ log.ret = Tri(first # None)

\* C25: the anchored trailing stop does not fire while the position is less
\* than 2% adverse.
C25_TrailingNeedsTwoPercent ==
    (log.op = "check_stop_loss_conditions" /\ log.reason = "trailing")
    => ProfitAtMost(self, log.price, -2)



\* The object a cycle decided on: the position state the cycle recorded before
\* it acted, with the settings, which no cycle writes.
CycleSubject ==
    [self EXCEPT !.position = log.before[1], !.entry_price = log.before[2],
                 !.entry_time = log.before[6]]

\* C26: in a cycle with an open position the checks run in the order
\* stop-loss, take-profit, pyramid: when the stop-loss check and the
\* take-profit check both answer true on the cycle's price and candles the one
\* order of the cycle is a close with the stop-loss rationale, a take-profit
\* that answers true alone closes with its own rationale, and the pyramid
\* controller is consulted only when neither answered true.
C26_StopLossThenProfitThenPyramid ==
    (log.op = "run_triple_signal_strategy" /\ log.sig = << >> /\ log.kline # << >>)
    => LET sl == CheckStopLossConditions(CycleSubject, log.price, log.kline, log.t)
           tp == CheckTakeProfitConditions(CycleSubject, log.price)
       IN /\ (sl.fired /\ tp.fired)
                => /\ log.reason = sl.reason
                   /\ Len(log.orders) = 1 /\ log.orders[1].kind = "close"
          /\ (tp.fired /\ ~sl.fired /\ ~sl.raised)
                => /\ log.reason = "take_profit"
                   /\ Len(log.orders) = 1 /\ log.orders[1].kind = "close"
          /\ log.pyr # "n/a" => (~sl.fired /\ ~tp.fired)

\* A cycle in which the trailing stop and the take-profit both held and the
\* close went out with the trailing rationale.
C26_Witness ==
    /\ log.op = "run_triple_signal_strategy" /\ log.sig = << >> /\ log.kline # << >>
    /\ CheckTakeProfitConditions(CycleSubject, log.price).fired
    /\ TrailingStopHit(CycleSubject, log.price, log.kline)
    /\ log.reason = "trailing"
    /\ log.ret = "closed"


\* C27: a cycle that finds no position in memory submits an opening order
\* exactly when the three evaluators all answered True; when one answered
\* False or None it submits nothing and returns the status text of the three
\* evaluators.
C27_OpenIffAllThreeTrue ==
    (log.op = "run_triple_signal_strategy" /\ log.sig # << >>)
    => IF \A i \in 1..3 : log.sig[i] = "True"
       THEN /\ Len(log.orders) = 1
            /\ log.orders[1].kind = "open" /\ log.orders[1].side = "short"
            /\ log.ret \in {"opened", "open_failed", "error"}
       ELSE log.orders = << >> /\ log.ret = "watching"

\* A cycle whose trend evaluator had no data while the two others agreed: no
\* order, status text returned.
C27_Witness ==
    /\ log.op = "run_triple_signal_strategy"
    /\ log.sig = << "None", "True", "True" >>
    /\ log.orders = << >>
    /\ log.ret = "watching"


\* The latest close lies beyond each of the closes before it, on the side that
\* favours the position.
FavourableExtreme(position, closes) ==
    LET n == Len(closes) IN
    /\ n > 1
    /\ \A i \in 1..(n - 1) :
          IF position = "short" THEN closes[n] < closes[i] ELSE closes[n] > closes[i]

\* C28: with pyramiding enabled, a position open and current_pyramids below
\* max_pyramids, check_pyramid_conditions on an available frame answers true
\* exactly when the RSI condition holds, the latest close is a new extreme of
\* the last ten closes in the favourable direction and the price is at least
\* 2 * ATR away from last_pyramid_price.
C28_PyramidConditionsDecide ==
    [][ (/\ log'.op = "check_pyramid_conditions"
         /\ UNCHANGED <<self, venue, now, loop, rt, dp>>
         /\ log'.kline.fetch = "ok"
         /\ self.pyramid_enabled /\ self.position # None
         /\ self.current_pyramids < self.max_pyramids)
        => (log'.pyr = "True"
              <=> /\ RsiCondition(self.position, log'.kline)
                  /\ FavourableExtreme(self.position, log'.kline.closes)
                  /\ DistanceCondition(self, log'.price, log'.kline)) ]_vars


\* C29: a confirmed pyramid fill adds exactly 1 to current_pyramids, sets
\* last_pyramid_price to the fill price and adds exactly the add size to
\* position_size; while the venue stays on the same side, every later resync
\* to which the venue reports that side keeps current_pyramids and
\* last_pyramid_price, and keeps position_size when the venue reports the size
\* remembered.
C29_FillPersistsOnSameSide ==
    [][ /\ (/\ log'.op = "execute_pyramid"
             /\ log'.ret = "pyramid_done")
            => /\ self'.current_pyramids = self.current_pyramids + 1
               /\ self'.last_pyramid_price = OfInt(log'.price)
               /\ self'.position_size = self.position_size + log'.orders[1].size
        /\ (/\ log'.op = "_update_position_info"
             /\ log'.reason = "ok"
             /\ venue.pos # 0
             /\ self.current_pyramids > 0)
            => /\ self'.current_pyramids = self.current_pyramids
               /\ self'.last_pyramid_price = self.last_pyramid_price
               /\ Abs(venue.pos) = self.position_size
                    => self'.position_size = self.position_size ]_vars


\* base * 0.5^k for base = n/d (in 0.001 contracts), raised to the minimum
\* increment when below it and rounded to a whole increment.
AddSizeFrom(n, d, k) ==
    LET q == d * Pow2(k) IN
    IF n < MIN_INCREMENT * q THEN MIN_INCREMENT ELSE Round3(n, q)

\* What holds of every add next to its size: it is not below the minimum
\* increment and not above the add before it.
AddSizesDescend(k, size) ==
    /\ size >= MIN_INCREMENT
    /\ k > 1 => size <= AddSizeFrom(POSITION_SIZE, 1, k - 1)

C31_WindowIsLastObservations ==
    /\ Len(self.volatility_history) <= volatility_window
    /\ log.op = "_update_price_history"
         => LET k == Len(log.seen)
                n == Min2(k, volatility_window)
            IN self.volatility_history = SubSeq(log.seen, k - n + 1, k)

\* One observation past capacity: the first price, which differed from the
\* second, is gone and the second is now the oldest.
C31_Witness ==
    /\ log.op = "_update_price_history"
    /\ Len(log.seen) = volatility_window + 1
    /\ log.seen[1] # log.seen[2]
    /\ Len(self.volatility_history) = volatility_window
    /\ self.volatility_history[1] = log.seen[2]


\* C32: in both retry wrappers the wait between two attempts is at most
\* MAX_WAIT seconds, and after each further consecutive failure the wait
\* without jitter is twice the one before, up to that cap.
C32_WaitDoublesUpToCap ==
    [][ (/\ rt.pc = "running" /\ rt.attempts > 0
         /\ rt'.pc = "running" /\ rt'.attempts = rt.attempts + 1)
        => /\ rt.wait <= MAX_WAIT /\ rt'.wait <= MAX_WAIT
           /\ rt'.wait = Min2(MAX_WAIT, 2 * rt.wait) ]_vars


Config(s) ==
    << s.stop_loss_percentage, s.take_profit_percentage, s.pyramid_enabled,
       s.max_pyramids, s.current_strategy >>

\* C34: the configuration has one value throughout a decision cycle: no step
\* taken while a cycle is under way changes it, the variant the cycle runs is
\* the current_strategy standing at its end, and a command of the bot acts
\* only when no cycle is under way.
C34_ConfigFixedWithinCycle ==
    [][ /\ loop.pc = "in_cycle"
            => /\ Config(self') = Config(self)
               /\ loop'.pc = "returned" => log'.reason = self'.current_strategy
        /\ log'.op \in {"handle_callback", "stop_command"} /\ log' # log
            => loop.pc # "in_cycle" ]_vars

\* The one cycle is over, it ran the variant configured at its start, and a
\* button pressed afterwards has changed current_strategy.
C34_Witness ==
    /\ loop.pc = "returned" /\ loop.cycles = 1
    /\ loop.selected = "triple_signal"
    /\ log.op = "handle_callback" /\ log.ret = "accepted"
    /\ self.current_strategy = "original"


\* C35: _send_request_with_retry ends whatever the venue answers: it sends at
\* most max_retries requests, and with the last of them it has returned or
\* raised, also when every answer carries an HTTP status of 400 or above.
C35_SendEndsWithinFive ==
    (rt.pc # "idle" /\ rt.wrapper = "send")
    => /\ rt.attempts <= max_retries
       /\ rt.attempts = max_retries => rt.pc \in {"returned", "raised"}


\* C36: while the venue holds one position without interruption, the pyramid
\* adds filled on it never number more than max_pyramids, whatever the reads
\* of the position returned in between.
C36_AddsWithinLimitPerPosition ==
    venue.pos # 0 => venue.adds <= self.max_pyramids


\* The percentage changes _calculate_volatility computes divide by a stored
\* price each; it computes them once five prices are stored.
DividesByZero(h) == Len(h) >= 5 /\ \E i \in 2..Len(h) : h[i - 1] = 0

C38_UnauthorizedChangesNothing ==
    [][(/\ log'.op \in {"handle_callback", "stop_command", "run_command"}
        /\ "unauthorized" \in {log'.outcome, log'.ret})
       => /\ Config(self') = Config(self)
          /\ self'.running = self.running]_vars


\* C39: a message passed to send_message while the bot is offline is appended
\* to offline_messages, and when the sink is reachable and the previous
\* reconnect attempt is at least min_retry_interval old the call brings the bot
\* back online, delivers the queued messages in the order they were queued and
\* leaves the queue empty.
C39_ReconnectDeliversQueueInOrder ==
    [][(log'.op = "send_message" /\ rt.is_offline)
       => LET queued == Append(rt.offline_messages, log'.size) IN
          IF rt.reachable /\ rt.time - rt.last_retry_time >= min_retry_interval
          THEN /\ ~rt'.is_offline
               /\ rt'.offline_messages = << >>
               /\ rt'.delivered = rt.delivered \o queued
          ELSE rt'.offline_messages = queued]_vars

=============================================================================
